---- MODULE Spec2Model ----
(***************************************************************************)
(* Remitwise contracts: the bill, insurance and savings ledgers and the    *)
(* remittance split allocator, each a Soroban contract with its own        *)
(* instance storage.  One behaviour follows the invocations made on one    *)
(* deployed contract.                                                      *)
(***************************************************************************)
EXTENDS Integers, Sequences, FiniteSets, TLC

VARIABLES
    contract,         \* which of the contracts this instance is
    overflow_checks,  \* build profile: arithmetic overflow panics (TRUE) or wraps (FALSE)
    now,              \* env.ledger().timestamp()
    storage,          \* env.storage().instance(): key -> value, absent keys not in DOMAIN
    last              \* the last invocation: operation, arguments, outcome

vars == <<contract, overflow_checks, now, storage, last>>

(***************************************************************************)
(* Bounds of the model.  u64 and i128 are modelled with fewer bits so that *)
(* their largest values are reachable inputs.                              *)
(***************************************************************************)
U64Bits == 24
U32Bits == 8
I128Bits == 16
MaxRecords == 2
MaxTime == 1
MaxSaved == 1

U64_MAX == (2 ^ U64Bits) - 1
U32_MAX == (2 ^ U32Bits) - 1
I128_MAX == (2 ^ (I128Bits - 1)) - 1
I128_MIN == (0 - I128_MAX) - 1

(***************************************************************************)
(* Integer arithmetic of the build: [panic, v].                            *)
(***************************************************************************)
Val(v) == [panic |-> FALSE, v |-> v]
Overflow(wrapped) ==
    IF overflow_checks THEN [panic |-> TRUE, v |-> 0] ELSE Val(wrapped)

\* a + b on u64, for a, b in 0..U64_MAX
AddU64(a, b) ==
    IF a <= U64_MAX - b THEN Val(a + b) ELSE Overflow((a - (U64_MAX - b)) - 1)

\* two's complement reduction of an integer to i128
WrapI128(x) == ((x - I128_MIN) % (2 ^ I128Bits)) + I128_MIN

InI128(x) == I128_MIN <= x /\ x <= I128_MAX

AddI128(a, b) == IF InI128(a + b) THEN Val(a + b) ELSE Overflow(WrapI128(a + b))
SubI128(a, b) == IF InI128(a - b) THEN Val(a - b) ELSE Overflow(WrapI128(a - b))
MulI128(a, b) == IF InI128(a * b) THEN Val(a * b) ELSE Overflow(WrapI128(a * b))

\* u64::saturating_sub
SaturatingSub(a, b) == IF a >= b THEN a - b ELSE 0

(***************************************************************************)
(* Instance storage and soroban Map.                                       *)
(***************************************************************************)
Has(st, k) == k \in DOMAIN st
Get(st, k, default) == IF k \in DOMAIN st THEN st[k] ELSE default
Set(st, k, v) == [x \in (DOMAIN st) \cup {k} |-> IF x = k THEN v ELSE st[x]]

EmptyStorage == [x \in {} |-> 0]
EmptyMap == [x \in {} |-> 0]
MapSet(m, k, v) == [x \in (DOMAIN m) \cup {k} |-> IF x = k THEN v ELSE m[x]]
ContainsKey(m, k) == k \in DOMAIN m

(***************************************************************************)
(* Outcome of an invocation.  A panic aborts the invocation: the host      *)
(* discards its writes, events and ttl extension.                          *)
(***************************************************************************)
Returns(ret, st, ttl, events) ==
    [panic |-> FALSE, ret |-> ret, st |-> st, ttl |-> ttl, events |-> events]
Panics(st0) ==
    [panic |-> TRUE, ret |-> "panic", st |-> st0, ttl |-> FALSE, events |-> <<>>]

NoCall == [op |-> "none", panic |-> FALSE, ret |-> "none", ttl |-> FALSE, events |-> <<>>]

Call(op, args, r) ==
    [op |-> op, args |-> args, panic |-> r.panic, ret |-> r.ret,
     ttl |-> r.ttl, events |-> r.events]

(***************************************************************************)
(* bill_payments                                                           *)
(***************************************************************************)
SECONDS_IN_DAY == 86400

BillNames == {"rent"}
BillAmounts == {0 - 1, 0, 2, I128_MAX}
BillDueDates == {1000, (U64_MAX - SECONDS_IN_DAY) + 1}
BillFrequencies == {1}
BillIds == 0 .. (MaxRecords + 1)

BillInitialize(st) ==
    IF Has(st, "NEXT_ID") THEN Panics(st)
    ELSE Returns("void",
                 Set(Set(Set(st, "NEXT_ID", 0), "UNPAID", 0), "BILLS", EmptyMap),
                 FALSE, <<>>)

\* mutant: the validation lets amount = 0 through
CreateBillAcceptsZero(st, name, amount, due_date, recurring, frequency_days) ==
    IF amount < 0 THEN Panics(st)
    ELSE
      LET bills == Get(st, "BILLS", EmptyMap)
          next_id == Get(st, "NEXT_ID", 0) + 1
          bill == [id |-> next_id, name |-> name, amount |-> amount,
                   due_date |-> due_date, recurring |-> recurring,
                   frequency_days |-> frequency_days, paid |-> FALSE]
          st1 == Set(st, "BILLS", MapSet(bills, next_id, bill))
          st2 == Set(st1, "NEXT_ID", next_id)
          unpaid_count == Get(st2, "UNPAID", 0) + 1
          st3 == Set(st2, "UNPAID", unpaid_count)
      IN  Returns(next_id, st3, TRUE, <<>>)

CreateBill(st, name, amount, due_date, recurring, frequency_days) ==
    IF amount <= 0 THEN Panics(st)
    ELSE
      LET bills == Get(st, "BILLS", EmptyMap)
          next_id == Get(st, "NEXT_ID", 0) + 1
          bill == [id |-> next_id, name |-> name, amount |-> amount,
                   due_date |-> due_date, recurring |-> recurring,
                   frequency_days |-> frequency_days, paid |-> FALSE]
          st1 == Set(st, "BILLS", MapSet(bills, next_id, bill))
          st2 == Set(st1, "NEXT_ID", next_id)
          unpaid_count == Get(st2, "UNPAID", 0) + 1
          st3 == Set(st2, "UNPAID", unpaid_count)
      IN  Returns(next_id, st3, TRUE, <<>>)

\* mutant: the recurring branch also counts the settled bill out of UNPAID
PayBillRecurringCountsDown(st, bills1, bill) ==
    LET next_id == Get(st, "NEXT_ID", 0) + 1
        next_due_date == AddU64(bill.due_date, bill.frequency_days * SECONDS_IN_DAY)
        next_bill == [id |-> next_id, name |-> bill.name, amount |-> bill.amount,
                      due_date |-> next_due_date.v, recurring |-> TRUE,
                      frequency_days |-> bill.frequency_days, paid |-> FALSE]
        bills2 == MapSet(bills1, next_id, next_bill)
        st1 == Set(st, "NEXT_ID", next_id)
        st2 == Set(st1, "UNPAID", SaturatingSub(Get(st, "UNPAID", 1), 1))
    IN  IF next_due_date.panic THEN Panics(st)
        ELSE Returns(TRUE, Set(st2, "BILLS", bills2), TRUE, <<>>)

\* mutant: the successor bill is stored but NEXT_ID is not advanced
PayBillRecurringKeepsNextId(st, bills1, bill) ==
    LET next_id == Get(st, "NEXT_ID", 0) + 1
        next_due_date == AddU64(bill.due_date, bill.frequency_days * SECONDS_IN_DAY)
        next_bill == [id |-> next_id, name |-> bill.name, amount |-> bill.amount,
                      due_date |-> next_due_date.v, recurring |-> TRUE,
                      frequency_days |-> bill.frequency_days, paid |-> FALSE]
        bills2 == MapSet(bills1, next_id, next_bill)
    IN  IF next_due_date.panic THEN Panics(st)
        ELSE Returns(TRUE, Set(st, "BILLS", bills2), TRUE, <<>>)

\* mutant: the successor bill is not marked recurring
PayBillRecurringOnce(st, bills1, bill) ==
    LET next_id == Get(st, "NEXT_ID", 0) + 1
        next_due_date == AddU64(bill.due_date, bill.frequency_days * SECONDS_IN_DAY)
        next_bill == [id |-> next_id, name |-> bill.name, amount |-> bill.amount,
                      due_date |-> next_due_date.v, recurring |-> FALSE,
                      frequency_days |-> bill.frequency_days, paid |-> FALSE]
        bills2 == MapSet(bills1, next_id, next_bill)
        st1 == Set(st, "NEXT_ID", next_id)
    IN  IF next_due_date.panic THEN Panics(st)
        ELSE Returns(TRUE, Set(st1, "BILLS", bills2), TRUE, <<>>)

\* pay_bill, the branch `if bill.recurring`: the successor bill
PayBillRecurring(st, bills1, bill) ==
    LET next_id == Get(st, "NEXT_ID", 0) + 1
        next_due_date == AddU64(bill.due_date, bill.frequency_days * SECONDS_IN_DAY)
        next_bill == [id |-> next_id, name |-> bill.name, amount |-> bill.amount,
                      due_date |-> next_due_date.v, recurring |-> TRUE,
                      frequency_days |-> bill.frequency_days, paid |-> FALSE]
        bills2 == MapSet(bills1, next_id, next_bill)
        st1 == Set(st, "NEXT_ID", next_id)
    IN  IF next_due_date.panic THEN Panics(st)
        ELSE Returns(TRUE, Set(st1, "BILLS", bills2), TRUE, <<>>)

\* pay_bill, the branch of a bill that is not recurring: one unpaid bill fewer
PayBillOnce(st, bills1) ==
    LET unpaid_count == SaturatingSub(Get(st, "UNPAID", 1), 1)
        st1 == Set(st, "UNPAID", unpaid_count)
    IN  Returns(TRUE, Set(st1, "BILLS", bills1), TRUE, <<>>)

\* mutant: the unpaid count is decremented before the bill is looked up
PayBillCountsFirst(st, bill_id) ==
    LET bills == Get(st, "BILLS", EmptyMap)
        st0 == Set(st, "UNPAID", SaturatingSub(Get(st, "UNPAID", 1), 1))
    IN
    IF ~ContainsKey(bills, bill_id) THEN Returns(FALSE, st0, FALSE, <<>>)
    ELSE
      LET bill0 == bills[bill_id] IN
      IF bill0.paid THEN Returns(FALSE, st, FALSE, <<>>)
      ELSE
        LET bill == [bill0 EXCEPT !.paid = TRUE]
            bills1 == MapSet(bills, bill_id, bill)
        IN  IF bill.recurring THEN PayBillRecurring(st, bills1, bill)
            ELSE PayBillOnce(st, bills1)

PayBill(st, bill_id) ==
    LET bills == Get(st, "BILLS", EmptyMap) IN
    IF ~ContainsKey(bills, bill_id) THEN Returns(FALSE, st, FALSE, <<>>)
    ELSE
      LET bill0 == bills[bill_id] IN
      IF bill0.paid THEN Returns(FALSE, st, FALSE, <<>>)
      ELSE
        LET bill == [bill0 EXCEPT !.paid = TRUE]
            bills1 == MapSet(bills, bill_id, bill)
        IN  IF bill.recurring THEN PayBillRecurring(st, bills1, bill)
            ELSE PayBillOnce(st, bills1)

GetBill(st, bill_id) ==
    LET bills == Get(st, "BILLS", EmptyMap) IN
    IF Has(st, "BILLS") /\ ContainsKey(bills, bill_id)
    THEN Returns(<<bills[bill_id]>>, st, FALSE, <<>>)
    ELSE Returns(<<>>, st, FALSE, <<>>)

\* the loop `for id in 1..=max_id`, pushing the unpaid bills found
RECURSIVE UnpaidFrom(_, _, _)
UnpaidFrom(bills, id, max_id) ==
    IF id > max_id THEN <<>>
    ELSE (IF ContainsKey(bills, id) /\ ~bills[id].paid THEN <<bills[id]>> ELSE <<>>)
         \o UnpaidFrom(bills, id + 1, max_id)

GetUnpaidBills(st) ==
    Returns(UnpaidFrom(Get(st, "BILLS", EmptyMap), 1, Get(st, "NEXT_ID", 0)),
            st, FALSE, <<>>)

\* the loop `for id in 1..=max_id` with `total += bill.amount`
RECURSIVE TotalFrom(_, _, _, _)
TotalFrom(bills, id, max_id, total) ==
    IF id > max_id THEN Val(total)
    ELSE IF ContainsKey(bills, id) /\ ~bills[id].paid
         THEN LET t == AddI128(total, bills[id].amount)
              IN  IF t.panic THEN t ELSE TotalFrom(bills, id + 1, max_id, t.v)
         ELSE TotalFrom(bills, id + 1, max_id, total)

GetTotalUnpaid(st) ==
    LET total == TotalFrom(Get(st, "BILLS", EmptyMap), 1, Get(st, "NEXT_ID", 0), 0)
    IN  IF total.panic THEN Panics(st) ELSE Returns(total.v, st, FALSE, <<>>)

(***************************************************************************)
(* insurance                                                               *)
(***************************************************************************)
SECONDS_PER_DAY == 86400
DAYS_PER_MONTH == 30
MONTH_IN_SECONDS == DAYS_PER_MONTH * SECONDS_PER_DAY

PolicyNames == {"health"}
CoverageTypes == {"medical"}
Premiums == {0 - 1, 0, 2, I128_MAX}
CoverageAmounts == {0, 1000}
PolicyIds == 0 .. (MaxRecords + 1)

InsuranceInitialize(st) ==
    IF Has(st, "NEXT_ID") THEN Panics(st)
    ELSE Returns("void",
                 Set(Set(Set(Set(st, "NEXT_ID", 0), "ACTIVE", 0), "PREMIUM", 0),
                     "POLICIES", EmptyMap),
                 FALSE, <<>>)

\* mutant: the id is read from NEXT_ID and not incremented
CreatePolicyKeepsId(st, name, coverage_type, monthly_premium, coverage_amount) ==
    IF monthly_premium <= 0 \/ coverage_amount <= 0 THEN Panics(st)
    ELSE
      LET policies == Get(st, "POLICIES", EmptyMap)
          next_id == Get(st, "NEXT_ID", 0)
          next_payment_date == AddU64(now, MONTH_IN_SECONDS)
          policy == [id |-> next_id, monthly_premium |-> monthly_premium,
                     coverage_amount |-> coverage_amount,
                     next_payment_date |-> next_payment_date.v, active |-> TRUE,
                     name |-> name, coverage_type |-> coverage_type]
          active_count == Get(st, "ACTIVE", 0) + 1
          total_premium == AddI128(Get(st, "PREMIUM", 0), monthly_premium)
          st1 == Set(st, "POLICIES", MapSet(policies, next_id, policy))
          st2 == Set(st1, "NEXT_ID", next_id)
          st3 == Set(st2, "ACTIVE", active_count)
          st4 == Set(st3, "PREMIUM", total_premium.v)
      IN  IF next_payment_date.panic \/ total_premium.panic THEN Panics(st)
          ELSE Returns(next_id, st4, TRUE, <<>>)

CreatePolicy(st, name, coverage_type, monthly_premium, coverage_amount) ==
    IF monthly_premium <= 0 \/ coverage_amount <= 0 THEN Panics(st)
    ELSE
      LET policies == Get(st, "POLICIES", EmptyMap)
          next_id == Get(st, "NEXT_ID", 0) + 1
          next_payment_date == AddU64(now, MONTH_IN_SECONDS)
          policy == [id |-> next_id, monthly_premium |-> monthly_premium,
                     coverage_amount |-> coverage_amount,
                     next_payment_date |-> next_payment_date.v, active |-> TRUE,
                     name |-> name, coverage_type |-> coverage_type]
          active_count == Get(st, "ACTIVE", 0) + 1
          total_premium == AddI128(Get(st, "PREMIUM", 0), monthly_premium)
          st1 == Set(st, "POLICIES", MapSet(policies, next_id, policy))
          st2 == Set(st1, "NEXT_ID", next_id)
          st3 == Set(st2, "ACTIVE", active_count)
          st4 == Set(st3, "PREMIUM", total_premium.v)
      IN  IF next_payment_date.panic \/ total_premium.panic THEN Panics(st)
          ELSE Returns(next_id, st4, TRUE, <<>>)

\* mutant: paying the premium of an inactive policy makes it active again
PayPremiumReactivates(st, policy_id) ==
    LET policies == Get(st, "POLICIES", EmptyMap) IN
    IF ~ContainsKey(policies, policy_id) THEN Returns(FALSE, st, FALSE, <<>>)
    ELSE
      LET policy0 == policies[policy_id]
          next_payment_date == AddU64(now, MONTH_IN_SECONDS)
          policy == [policy0 EXCEPT !.next_payment_date = next_payment_date.v,
                                    !.active = TRUE]
      IN  IF next_payment_date.panic THEN Panics(st)
          ELSE Returns(TRUE, Set(st, "POLICIES", MapSet(policies, policy_id, policy)),
                       TRUE, <<>>)

\* mutant: the payment date advances from the policy's date, not from the timestamp
PayPremiumFromDueDate(st, policy_id) ==
    LET policies == Get(st, "POLICIES", EmptyMap) IN
    IF ~ContainsKey(policies, policy_id) THEN Returns(FALSE, st, FALSE, <<>>)
    ELSE
      LET policy0 == policies[policy_id] IN
      IF ~policy0.active THEN Returns(FALSE, st, FALSE, <<>>)
      ELSE
        LET next_payment_date == AddU64(policy0.next_payment_date, MONTH_IN_SECONDS)
            policy == [policy0 EXCEPT !.next_payment_date = next_payment_date.v]
        IN  IF next_payment_date.panic THEN Panics(st)
            ELSE Returns(TRUE, Set(st, "POLICIES", MapSet(policies, policy_id, policy)),
                         TRUE, <<>>)

PayPremium(st, policy_id) ==
    LET policies == Get(st, "POLICIES", EmptyMap) IN
    IF ~ContainsKey(policies, policy_id) THEN Returns(FALSE, st, FALSE, <<>>)
    ELSE
      LET policy0 == policies[policy_id] IN
      IF ~policy0.active THEN Returns(FALSE, st, FALSE, <<>>)
      ELSE
        LET next_payment_date == AddU64(now, MONTH_IN_SECONDS)
            policy == [policy0 EXCEPT !.next_payment_date = next_payment_date.v]
        IN  IF next_payment_date.panic THEN Panics(st)
            ELSE Returns(TRUE, Set(st, "POLICIES", MapSet(policies, policy_id, policy)),
                         TRUE, <<>>)

GetPolicy(st, policy_id) ==
    LET policies == Get(st, "POLICIES", EmptyMap) IN
    IF Has(st, "POLICIES") /\ ContainsKey(policies, policy_id)
    THEN Returns(<<policies[policy_id]>>, st, FALSE, <<>>)
    ELSE Returns(<<>>, st, FALSE, <<>>)

\* the loop `for id in 1..=max_id`, pushing the active policies found
RECURSIVE ActiveFrom(_, _, _)
ActiveFrom(policies, id, max_id) ==
    IF id > max_id THEN <<>>
    ELSE (IF ContainsKey(policies, id) /\ policies[id].active
          THEN <<policies[id]>> ELSE <<>>)
         \o ActiveFrom(policies, id + 1, max_id)

\* mutant: the loop stops one id short of NEXT_ID
GetActivePoliciesStopsShort(st) ==
    Returns(ActiveFrom(Get(st, "POLICIES", EmptyMap), 1, Get(st, "NEXT_ID", 0) - 1),
            st, FALSE, <<>>)

GetActivePolicies(st) ==
    Returns(ActiveFrom(Get(st, "POLICIES", EmptyMap), 1, Get(st, "NEXT_ID", 0)),
            st, FALSE, <<>>)

GetTotalMonthlyPremium(st) == Returns(Get(st, "PREMIUM", 0), st, FALSE, <<>>)

\* mutant: the policy is unwrapped without the existence check
DeactivatePolicyUnwraps(st, policy_id) ==
    LET policies == Get(st, "POLICIES", EmptyMap) IN
    IF ~ContainsKey(policies, policy_id) THEN Panics(st)
    ELSE
      LET policy0 == policies[policy_id] IN
      IF ~policy0.active THEN Returns(FALSE, st, FALSE, <<>>)
      ELSE
        LET policy == [policy0 EXCEPT !.active = FALSE]
            policies1 == MapSet(policies, policy_id, policy)
            active_count == SaturatingSub(Get(st, "ACTIVE", 1), 1)
            total_premium == SubI128(Get(st, "PREMIUM", policy.monthly_premium),
                                     policy.monthly_premium)
            st1 == Set(st, "POLICIES", policies1)
            st2 == Set(st1, "ACTIVE", active_count)
            st3 == Set(st2, "PREMIUM", total_premium.v)
        IN  IF total_premium.panic THEN Panics(st)
            ELSE Returns(TRUE, st3, TRUE, <<>>)

DeactivatePolicy(st, policy_id) ==
    LET policies == Get(st, "POLICIES", EmptyMap) IN
    IF ~ContainsKey(policies, policy_id) THEN Returns(FALSE, st, FALSE, <<>>)
    ELSE
      LET policy0 == policies[policy_id] IN
      IF ~policy0.active THEN Returns(FALSE, st, FALSE, <<>>)
      ELSE
        LET policy == [policy0 EXCEPT !.active = FALSE]
            policies1 == MapSet(policies, policy_id, policy)
            active_count == SaturatingSub(Get(st, "ACTIVE", 1), 1)
            total_premium == SubI128(Get(st, "PREMIUM", policy.monthly_premium),
                                     policy.monthly_premium)
            st1 == Set(st, "POLICIES", policies1)
            st2 == Set(st1, "ACTIVE", active_count)
            st3 == Set(st2, "PREMIUM", total_premium.v)
        IN  IF total_premium.panic THEN Panics(st)
            ELSE Returns(TRUE, st3, TRUE, <<>>)

(***************************************************************************)
(* savings_goals                                                           *)
(***************************************************************************)
InvalidAmount == 1
GoalNotFound == 2

GoalNames == {"school"}
TargetAmounts == {0 - 1, 0, 1, I128_MAX}
TargetDates == {0, now, MaxTime + 1}
Contributions == {0, 1, I128_MAX}
GoalIds == 0 .. (MaxRecords + 1)

Ok(v) == <<"Ok", v>>
Err(e) == <<"Err", e>>

\* mutant: the guard looks for the TOTAL key, which create_goal does not write
SavingsInitializeChecksTotal(st) ==
    IF Has(st, "TOTAL") THEN Panics(st)
    ELSE Returns("void",
                 Set(Set(Set(Set(Set(st, "NEXT_ID", 0), "TOTAL", 0), "ACTIVE", 0),
                         "COMPLETE", 0), "GOALS", EmptyMap),
                 FALSE, <<>>)

SavingsInitialize(st) ==
    IF Has(st, "NEXT_ID") THEN Panics(st)
    ELSE Returns("void",
                 Set(Set(Set(Set(Set(st, "NEXT_ID", 0), "TOTAL", 0), "ACTIVE", 0),
                         "COMPLETE", 0), "GOALS", EmptyMap),
                 FALSE, <<>>)

\* mutant: a target date equal to the current timestamp is let through
CreateGoalAcceptsNow(st, name, target_amount, target_date) ==
    IF target_amount <= 0 THEN Panics(st)
    ELSE IF target_date < now THEN Panics(st)
    ELSE
      LET goals == Get(st, "GOALS", EmptyMap)
          next_id == Get(st, "NEXT_ID", 0) + 1
          goal == [id |-> next_id, target_amount |-> target_amount, current_amount |-> 0,
                   target_date |-> target_date, locked |-> TRUE, name |-> name]
          active_count == Get(st, "ACTIVE", 0) + 1
          st1 == Set(st, "GOALS", MapSet(goals, next_id, goal))
          st2 == Set(st1, "NEXT_ID", next_id)
          st3 == Set(st2, "ACTIVE", active_count)
      IN  Returns(next_id, st3, TRUE,
                  <<[topics |-> <<"savings", "GoalCreated">>, data |-> <<next_id, "owner">>]>>)

CreateGoal(st, name, target_amount, target_date) ==
    IF target_amount <= 0 THEN Panics(st)
    ELSE IF target_date <= now THEN Panics(st)
    ELSE
      LET goals == Get(st, "GOALS", EmptyMap)
          next_id == Get(st, "NEXT_ID", 0) + 1
          goal == [id |-> next_id, target_amount |-> target_amount, current_amount |-> 0,
                   target_date |-> target_date, locked |-> TRUE, name |-> name]
          active_count == Get(st, "ACTIVE", 0) + 1
          st1 == Set(st, "GOALS", MapSet(goals, next_id, goal))
          st2 == Set(st1, "NEXT_ID", next_id)
          st3 == Set(st2, "ACTIVE", active_count)
      IN  Returns(next_id, st3, TRUE,
                  <<[topics |-> <<"savings", "GoalCreated">>, data |-> <<next_id, "owner">>]>>)

\* mutant: an absent TOTAL is read as 1
AddToGoalTotalFromOne(st, goal_id, amount) ==
    IF amount <= 0 THEN Returns(Err(InvalidAmount), st, FALSE, <<>>)
    ELSE
      LET goals == Get(st, "GOALS", EmptyMap) IN
      IF ~ContainsKey(goals, goal_id) THEN Returns(Err(GoalNotFound), st, FALSE, <<>>)
      ELSE
        LET goal0 == goals[goal_id]
            was_completed == goal0.current_amount >= goal0.target_amount
            current_amount == AddI128(goal0.current_amount, amount)
            goal == [goal0 EXCEPT !.current_amount = current_amount.v]
            goals1 == MapSet(goals, goal_id, goal)
            total_saved == AddI128(Get(st, "TOTAL", 1), amount)
            st1 == Set(st, "TOTAL", total_saved.v)
            is_completed == goal.current_amount >= goal.target_amount
            completed_count == Get(st1, "COMPLETE", 0) + 1
            active_count == SaturatingSub(Get(st1, "ACTIVE", 1), 1)
            st2 == IF ~was_completed /\ is_completed
                   THEN Set(Set(st1, "COMPLETE", completed_count), "ACTIVE", active_count)
                   ELSE st1
            st3 == Set(st2, "GOALS", goals1)
        IN  IF current_amount.panic \/ total_saved.panic THEN Panics(st)
            ELSE Returns(Ok(goal.current_amount), st3, TRUE, <<>>)

AddToGoal(st, goal_id, amount) ==
    IF amount <= 0 THEN Returns(Err(InvalidAmount), st, FALSE, <<>>)
    ELSE
      LET goals == Get(st, "GOALS", EmptyMap) IN
      IF ~ContainsKey(goals, goal_id) THEN Returns(Err(GoalNotFound), st, FALSE, <<>>)
      ELSE
        LET goal0 == goals[goal_id]
            was_completed == goal0.current_amount >= goal0.target_amount
            current_amount == AddI128(goal0.current_amount, amount)
            goal == [goal0 EXCEPT !.current_amount = current_amount.v]
            goals1 == MapSet(goals, goal_id, goal)
            total_saved == AddI128(Get(st, "TOTAL", 0), amount)
            st1 == Set(st, "TOTAL", total_saved.v)
            is_completed == goal.current_amount >= goal.target_amount
            completed_count == Get(st1, "COMPLETE", 0) + 1
            active_count == SaturatingSub(Get(st1, "ACTIVE", 1), 1)
            st2 == IF ~was_completed /\ is_completed
                   THEN Set(Set(st1, "COMPLETE", completed_count), "ACTIVE", active_count)
                   ELSE st1
            st3 == Set(st2, "GOALS", goals1)
        IN  IF current_amount.panic \/ total_saved.panic THEN Panics(st)
            ELSE Returns(Ok(goal.current_amount), st3, TRUE, <<>>)

GetGoal(st, goal_id) ==
    LET goals == Get(st, "GOALS", EmptyMap) IN
    IF Has(st, "GOALS") /\ ContainsKey(goals, goal_id)
    THEN Returns(<<goals[goal_id]>>, st, FALSE, <<>>)
    ELSE Returns(<<>>, st, FALSE, <<>>)

\* the loop `for id in 1..=max_id`, pushing every goal found
RECURSIVE GoalsFrom(_, _, _)
GoalsFrom(goals, id, max_id) ==
    IF id > max_id THEN <<>>
    ELSE (IF ContainsKey(goals, id) THEN <<goals[id]>> ELSE <<>>)
         \o GoalsFrom(goals, id + 1, max_id)

GetAllGoals(st) ==
    Returns(GoalsFrom(Get(st, "GOALS", EmptyMap), 1, Get(st, "NEXT_ID", 0)),
            st, FALSE, <<>>)

IsGoalCompleted(st, goal_id) ==
    LET goals == Get(st, "GOALS", EmptyMap) IN
    IF Has(st, "GOALS") /\ ContainsKey(goals, goal_id)
    THEN Returns(goals[goal_id].current_amount >= goals[goal_id].target_amount,
                 st, FALSE, <<>>)
    ELSE Returns(FALSE, st, FALSE, <<>>)

(***************************************************************************)
(* remittance_split                                                        *)
(***************************************************************************)
\* a + b on u32, for a, b in 0..U32_MAX
AddU32(a, b) ==
    IF a <= U32_MAX - b THEN Val(a + b) ELSE Overflow((a - (U32_MAX - b)) - 1)

\* spending_percent + savings_percent + bills_percent + insurance_percent
PercentSum(p) ==
    LET s1 == AddU32(p[1], p[2])
        s2 == AddU32(s1.v, p[3])
        s3 == AddU32(s2.v, p[4])
    IN  IF s1.panic \/ s2.panic \/ s3.panic THEN [panic |-> TRUE, v |-> 0] ELSE s3

\* i128 division truncates toward zero
DivI128(a, b) == IF a >= 0 THEN a \div b ELSE 0 - ((0 - a) \div b)

Owners == {"alice", "bob"}
Percents == {<<50, 30, 15, 5>>, <<50, 30, 15, 4>>, <<50, 30, 15, 6>>, <<33, 33, 33, 1>>,
             <<100, 0, 0, 0>>, <<0, 0, 0, 100>>, <<U32_MAX, 101, 0, 0>>}
TotalAmounts == {0 - 1, 0, 1, 7, 100, I128_MAX \div 100, (I128_MAX \div 100) + 1, I128_MAX}

DefaultSplit == <<50, 30, 15, 5>>

SplitConfig(owner, p) ==
    [owner |-> owner, spending_percent |-> p[1], savings_percent |-> p[2],
     bills_percent |-> p[3], insurance_percent |-> p[4], initialized |-> TRUE]

SplitEvent(kind, data) == [topics |-> <<"split", kind>>, data |-> data]

\* mutant: SPLIT is written before the sum is validated
InitializeSplitStoresFirst(st, authorized, owner, p) ==
    IF ~authorized THEN Panics(st)
    ELSE IF Has(st, "CONFIG") THEN Panics(st)
    ELSE
      LET sum == PercentSum(p) IN
      IF sum.panic THEN Panics(st)
      ELSE IF sum.v # 100 THEN Returns(FALSE, Set(st, "SPLIT", p), FALSE, <<>>)
      ELSE Returns(TRUE, Set(Set(st, "SPLIT", p), "CONFIG", SplitConfig(owner, p)),
                   TRUE, <<SplitEvent("Initialized", owner)>>)

\* mutant: the check for an existing CONFIG is left out
InitializeSplitAgain(st, authorized, owner, p) ==
    IF ~authorized THEN Panics(st)
    ELSE
      LET sum == PercentSum(p) IN
      IF sum.panic THEN Panics(st)
      ELSE IF sum.v # 100 THEN Returns(FALSE, st, FALSE, <<>>)
      ELSE Returns(TRUE, Set(Set(st, "SPLIT", p), "CONFIG", SplitConfig(owner, p)),
                   TRUE, <<SplitEvent("Initialized", owner)>>)

InitializeSplit(st, authorized, owner, p) ==
    IF ~authorized THEN Panics(st)
    ELSE IF Has(st, "CONFIG") THEN Panics(st)
    ELSE
      LET sum == PercentSum(p) IN
      IF sum.panic THEN Panics(st)
      ELSE IF sum.v # 100 THEN Returns(FALSE, st, FALSE, <<>>)
      ELSE Returns(TRUE, Set(Set(st, "SPLIT", p), "CONFIG", SplitConfig(owner, p)),
                   TRUE, <<SplitEvent("Initialized", owner)>>)

\* mutant: the owner argument is not compared with the stored owner
UpdateSplitAnyOwner(st, authorized, owner, p) ==
    IF ~authorized THEN Panics(st)
    ELSE IF ~Has(st, "CONFIG") THEN Panics(st)
    ELSE
      LET sum == PercentSum(p) IN
      IF sum.panic THEN Panics(st)
      ELSE IF sum.v # 100 THEN Returns(FALSE, st, FALSE, <<>>)
      ELSE Returns(TRUE, Set(Set(st, "SPLIT", p), "CONFIG", SplitConfig(owner, p)),
                   TRUE, <<SplitEvent("Updated", owner)>>)

\* mutant: CONFIG is rewritten and SPLIT is not
UpdateSplitConfigOnly(st, authorized, owner, p) ==
    IF ~authorized THEN Panics(st)
    ELSE IF ~Has(st, "CONFIG") THEN Panics(st)
    ELSE IF st["CONFIG"].owner # owner THEN Panics(st)
    ELSE
      LET sum == PercentSum(p) IN
      IF sum.panic THEN Panics(st)
      ELSE IF sum.v # 100 THEN Returns(FALSE, st, FALSE, <<>>)
      ELSE Returns(TRUE, Set(st, "CONFIG", SplitConfig(owner, p)),
                   TRUE, <<SplitEvent("Updated", owner)>>)

UpdateSplit(st, authorized, owner, p) ==
    IF ~authorized THEN Panics(st)
    ELSE IF ~Has(st, "CONFIG") THEN Panics(st)
    ELSE IF st["CONFIG"].owner # owner THEN Panics(st)
    ELSE
      LET sum == PercentSum(p) IN
      IF sum.panic THEN Panics(st)
      ELSE IF sum.v # 100 THEN Returns(FALSE, st, FALSE, <<>>)
      ELSE Returns(TRUE, Set(Set(st, "SPLIT", p), "CONFIG", SplitConfig(owner, p)),
                   TRUE, <<SplitEvent("Updated", owner)>>)

GetSplit(st) == Get(st, "SPLIT", DefaultSplit)

GetConfig(st) == IF Has(st, "CONFIG") THEN <<st["CONFIG"]>> ELSE <<>>

\* mutant: the validation lets total_amount = 0 through
CalculateSplitAcceptsZero(st, total_amount) ==
    IF total_amount < 0 THEN Panics(st)
    ELSE
      LET split == GetSplit(st)
          total == total_amount
          m1 == MulI128(total, split[1])
          m2 == MulI128(total, split[2])
          m3 == MulI128(total, split[3])
          spending == DivI128(m1.v, 100)
          savings == DivI128(m2.v, 100)
          bills == DivI128(m3.v, 100)
          d1 == SubI128(total, spending)
          d2 == SubI128(d1.v, savings)
          insurance == SubI128(d2.v, bills)
      IN  IF m1.panic \/ m2.panic \/ m3.panic \/ d1.panic \/ d2.panic \/ insurance.panic
          THEN Panics(st)
          ELSE Returns(<<spending, savings, bills, insurance.v>>, st, FALSE,
                       <<SplitEvent("Calculated", total_amount)>>)

CalculateSplit(st, total_amount) ==
    IF total_amount <= 0 THEN Panics(st)
    ELSE
      LET split == GetSplit(st)
          total == total_amount
          m1 == MulI128(total, split[1])
          m2 == MulI128(total, split[2])
          m3 == MulI128(total, split[3])
          spending == DivI128(m1.v, 100)
          savings == DivI128(m2.v, 100)
          bills == DivI128(m3.v, 100)
          d1 == SubI128(total, spending)
          d2 == SubI128(d1.v, savings)
          insurance == SubI128(d2.v, bills)
      IN  IF m1.panic \/ m2.panic \/ m3.panic \/ d1.panic \/ d2.panic \/ insurance.panic
          THEN Panics(st)
          ELSE Returns(<<spending, savings, bills, insurance.v>>, st, FALSE,
                       <<SplitEvent("Calculated", total_amount)>>)

(***************************************************************************)
(* family_wallet                                                           *)
(***************************************************************************)
Addresses == {"carol", "dave"}
MemberNames == {"kid"}
Roles == {"sender"}
SpendingLimits == {0, 5}
SpendAmounts == {0 - 1, 0, 5, 6}

AddMember(st, address, name, spending_limit, role) ==
    LET members == Get(st, "MEMBERS", EmptyMap)
        member == [address |-> address, name |-> name,
                   spending_limit |-> spending_limit, role |-> role]
    IN  Returns(TRUE, Set(st, "MEMBERS", MapSet(members, address, member)), FALSE, <<>>)

GetMember(st, address) ==
    LET members == Get(st, "MEMBERS", EmptyMap) IN
    IF ContainsKey(members, address) THEN <<members[address]>> ELSE <<>>

\* the members are read and the result is returned as created, empty
GetAllMembers(st) ==
    LET members == Get(st, "MEMBERS", EmptyMap)
        result == <<>>
    IN  Returns(result, st, FALSE, <<>>)

UpdateSpendingLimit(st, address, new_limit) ==
    LET members == Get(st, "MEMBERS", EmptyMap) IN
    IF ContainsKey(members, address)
    THEN LET member == [members[address] EXCEPT !.spending_limit = new_limit]
         IN  Returns(TRUE, Set(st, "MEMBERS", MapSet(members, address, member)),
                     FALSE, <<>>)
    ELSE Returns(FALSE, st, FALSE, <<>>)

\* mutant: an amount equal to the limit is refused
CheckSpendingLimitStrict(st, address, amount) ==
    LET found == GetMember(st, address) IN
    IF found # <<>>
    THEN Returns(amount < found[1].spending_limit, st, FALSE, <<>>)
    ELSE Returns(FALSE, st, FALSE, <<>>)

CheckSpendingLimit(st, address, amount) ==
    LET found == GetMember(st, address) IN
    IF found # <<>>
    THEN Returns(amount <= found[1].spending_limit, st, FALSE, <<>>)
    ELSE Returns(FALSE, st, FALSE, <<>>)

(***************************************************************************)
(* Invocations.                                                            *)
(***************************************************************************)
Invoke(op, args, r) ==
    /\ storage' = (IF r.panic THEN storage ELSE r.st)
    /\ last' = Call(op, args, r)
    /\ UNCHANGED <<contract, overflow_checks, now>>

\* ids are issued one at a time; the model stops issuing at MaxRecords
IdsLeft == Get(storage, "NEXT_ID", 0) < MaxRecords
IssuesNoId(r) == r.panic \/ Get(r.st, "NEXT_ID", 0) = Get(storage, "NEXT_ID", 0)

bill_initialize ==
    /\ contract = "bill_payments"
    /\ Invoke("initialize", <<>>, BillInitialize(storage))

create_bill ==
    /\ contract = "bill_payments"
    /\ IdsLeft
    /\ \E name \in BillNames, amount \in BillAmounts, due_date \in BillDueDates,
          recurring \in BOOLEAN, frequency_days \in BillFrequencies :
          Invoke("create_bill", [amount |-> amount],
                 CreateBill(storage, name, amount, due_date, recurring, frequency_days))

pay_bill ==
    /\ contract = "bill_payments"
    /\ \E bill_id \in BillIds :
          /\ IdsLeft \/ IssuesNoId(PayBill(storage, bill_id))
          /\ Invoke("pay_bill", [id |-> bill_id], PayBill(storage, bill_id))

get_bill ==
    /\ contract = "bill_payments"
    /\ \E bill_id \in BillIds :
          Invoke("get_bill", [id |-> bill_id], GetBill(storage, bill_id))

get_unpaid_bills ==
    /\ contract = "bill_payments"
    /\ Invoke("get_unpaid_bills", <<>>, GetUnpaidBills(storage))

get_total_unpaid ==
    /\ contract = "bill_payments"
    /\ Invoke("get_total_unpaid", <<>>, GetTotalUnpaid(storage))

NextBills ==
    \/ bill_initialize
    \/ create_bill
    \/ pay_bill
    \/ get_bill
    \/ get_unpaid_bills
    \/ get_total_unpaid

\* the ledger closes and its timestamp advances
tick ==
    /\ contract \in {"insurance", "savings_goals"}
    /\ now < MaxTime
    /\ now' = now + 1
    /\ UNCHANGED <<contract, overflow_checks, storage, last>>

insurance_initialize ==
    /\ contract = "insurance"
    /\ Invoke("initialize", <<>>, InsuranceInitialize(storage))

create_policy ==
    /\ contract = "insurance"
    /\ IdsLeft
    /\ \E name \in PolicyNames, coverage_type \in CoverageTypes,
          monthly_premium \in Premiums, coverage_amount \in CoverageAmounts :
          Invoke("create_policy",
                 [monthly_premium |-> monthly_premium, coverage_amount |-> coverage_amount],
                 CreatePolicy(storage, name, coverage_type, monthly_premium, coverage_amount))

pay_premium ==
    /\ contract = "insurance"
    /\ \E policy_id \in PolicyIds :
          Invoke("pay_premium", [id |-> policy_id], PayPremium(storage, policy_id))

get_policy ==
    /\ contract = "insurance"
    /\ \E policy_id \in PolicyIds :
          Invoke("get_policy", [id |-> policy_id], GetPolicy(storage, policy_id))

get_active_policies ==
    /\ contract = "insurance"
    /\ Invoke("get_active_policies", <<>>, GetActivePolicies(storage))

get_total_monthly_premium ==
    /\ contract = "insurance"
    /\ Invoke("get_total_monthly_premium", <<>>, GetTotalMonthlyPremium(storage))

deactivate_policy ==
    /\ contract = "insurance"
    /\ \E policy_id \in PolicyIds :
          Invoke("deactivate_policy", [id |-> policy_id],
                 DeactivatePolicy(storage, policy_id))

NextInsurance ==
    \/ insurance_initialize
    \/ create_policy
    \/ pay_premium
    \/ get_policy
    \/ get_active_policies
    \/ get_total_monthly_premium
    \/ deactivate_policy
    \/ tick

savings_initialize ==
    /\ contract = "savings_goals"
    /\ Invoke("initialize", <<>>, SavingsInitialize(storage))

create_goal ==
    /\ contract = "savings_goals"
    /\ IdsLeft
    /\ \E name \in GoalNames, target_amount \in TargetAmounts, target_date \in TargetDates :
          Invoke("create_goal", [target_amount |-> target_amount, target_date |-> target_date],
                 CreateGoal(storage, name, target_amount, target_date))

\* contributions are accepted without limit; the model stops contributing to a
\* goal once it holds more than MaxSaved
add_to_goal ==
    /\ contract = "savings_goals"
    /\ \E goal_id \in GoalIds, amount \in Contributions :
          /\ LET goals == Get(storage, "GOALS", EmptyMap)
             IN  ContainsKey(goals, goal_id) =>
                    (0 <= goals[goal_id].current_amount
                        /\ goals[goal_id].current_amount <= MaxSaved)
          /\ Invoke("add_to_goal", [id |-> goal_id, amount |-> amount],
                    AddToGoal(storage, goal_id, amount))

get_goal ==
    /\ contract = "savings_goals"
    /\ \E goal_id \in GoalIds :
          Invoke("get_goal", [id |-> goal_id], GetGoal(storage, goal_id))

get_all_goals ==
    /\ contract = "savings_goals"
    /\ Invoke("get_all_goals", <<>>, GetAllGoals(storage))

is_goal_completed ==
    /\ contract = "savings_goals"
    /\ \E goal_id \in GoalIds :
          Invoke("is_goal_completed", [id |-> goal_id], IsGoalCompleted(storage, goal_id))

NextSavings ==
    \/ savings_initialize
    \/ create_goal
    \/ add_to_goal
    \/ get_goal
    \/ get_all_goals
    \/ is_goal_completed
    \/ tick

initialize_split ==
    /\ contract = "remittance_split"
    /\ \E authorized \in BOOLEAN, owner \in Owners, p \in Percents :
          Invoke("initialize_split", [authorized |-> authorized, owner |-> owner, p |-> p],
                 InitializeSplit(storage, authorized, owner, p))

update_split ==
    /\ contract = "remittance_split"
    /\ \E authorized \in BOOLEAN, owner \in Owners, p \in Percents :
          Invoke("update_split", [authorized |-> authorized, owner |-> owner, p |-> p],
                 UpdateSplit(storage, authorized, owner, p))

get_split ==
    /\ contract = "remittance_split"
    /\ Invoke("get_split", <<>>, Returns(GetSplit(storage), storage, FALSE, <<>>))

get_config ==
    /\ contract = "remittance_split"
    /\ Invoke("get_config", <<>>, Returns(GetConfig(storage), storage, FALSE, <<>>))

calculate_split ==
    /\ contract = "remittance_split"
    /\ \E total_amount \in TotalAmounts :
          Invoke("calculate_split", [total_amount |-> total_amount],
                 CalculateSplit(storage, total_amount))

NextSplit ==
    \/ initialize_split
    \/ update_split
    \/ get_split
    \/ get_config
    \/ calculate_split

add_member ==
    /\ contract = "family_wallet"
    /\ \E address \in Addresses, name \in MemberNames,
          spending_limit \in SpendingLimits, role \in Roles :
          Invoke("add_member", [address |-> address, spending_limit |-> spending_limit],
                 AddMember(storage, address, name, spending_limit, role))

get_member ==
    /\ contract = "family_wallet"
    /\ \E address \in Addresses :
          Invoke("get_member", [address |-> address],
                 Returns(GetMember(storage, address), storage, FALSE, <<>>))

get_all_members ==
    /\ contract = "family_wallet"
    /\ Invoke("get_all_members", <<>>, GetAllMembers(storage))

update_spending_limit ==
    /\ contract = "family_wallet"
    /\ \E address \in Addresses, new_limit \in SpendingLimits :
          Invoke("update_spending_limit", [address |-> address, new_limit |-> new_limit],
                 UpdateSpendingLimit(storage, address, new_limit))

check_spending_limit ==
    /\ contract = "family_wallet"
    /\ \E address \in Addresses, amount \in SpendAmounts :
          Invoke("check_spending_limit", [address |-> address, amount |-> amount],
                 CheckSpendingLimit(storage, address, amount))

NextWallet ==
    \/ add_member
    \/ get_member
    \/ get_all_members
    \/ update_spending_limit
    \/ check_spending_limit

(***************************************************************************)
(* Specifications: one per contract, and all of them.                      *)
(***************************************************************************)
Contracts == {"bill_payments", "insurance", "savings_goals", "remittance_split",
              "family_wallet"}

Init ==
    /\ contract \in Contracts
    /\ overflow_checks \in BOOLEAN
    /\ now = 0
    /\ storage = EmptyStorage
    /\ last = NoCall

Next ==
    \/ NextBills
    \/ NextInsurance
    \/ NextSavings
    \/ NextSplit
    \/ NextWallet

Spec == Init /\ [][Next]_vars

InitOf(c) ==
    /\ contract = c
    /\ overflow_checks \in BOOLEAN
    /\ now = 0
    /\ storage = EmptyStorage
    /\ last = NoCall

InitBills == InitOf("bill_payments")
InitInsurance == InitOf("insurance")
InitSavings == InitOf("savings_goals")
InitSplit == InitOf("remittance_split")
InitWallet == InitOf("family_wallet")

SpecBills == InitBills /\ [][NextBills]_vars
SpecInsurance == InitInsurance /\ [][NextInsurance]_vars
SpecSavings == InitSavings /\ [][NextSavings]_vars
SpecSplit == InitSplit /\ [][NextSplit]_vars
SpecWallet == InitWallet /\ [][NextWallet]_vars

(***************************************************************************)
(* What the claims speak about.                                            *)
(***************************************************************************)
NextId == Get(storage, "NEXT_ID", 0)
Bills == Get(storage, "BILLS", EmptyMap)
Policies == Get(storage, "POLICIES", EmptyMap)
Goals == Get(storage, "GOALS", EmptyMap)

UnpaidIds == {id \in DOMAIN Bills : ~Bills[id].paid}
ActiveIds == {id \in DOMAIN Policies : Policies[id].active}

RECURSIVE SumOf(_, _)
SumOf(f, S) ==
    IF S = {} THEN 0
    ELSE LET x == CHOOSE y \in S : TRUE IN f[x] + SumOf(f, S \ {x})

BillAmountOf == [id \in DOMAIN Bills |-> Bills[id].amount]
PremiumOf == [id \in DOMAIN Policies |-> Policies[id].monthly_premium]

\* the step is the invocation of op
CallStep(op) == now' = now /\ last'.op = op

\* the outcome of a read, as its caller sees it
Outcome(r) == [panic |-> r.panic, ret |-> r.ret]

(***************************************************************************)
(* C1: in every reachable state of the insurance ledger the cached ACTIVE  *)
(* count is the number of stored policies with active = true, and          *)
(* get_total_monthly_premium is the sum of monthly_premium over them.      *)
(***************************************************************************)
C1_InsuranceAggregates ==
    contract = "insurance" =>
        /\ Get(storage, "ACTIVE", 0) = Cardinality(ActiveIds)
        /\ GetTotalMonthlyPremium(storage).ret = SumOf(PremiumOf, ActiveIds)

(***************************************************************************)
(* C2: in every reachable state of the bill ledger the cached UNPAID count *)
(* is the number of stored bills with paid = false, and get_total_unpaid   *)
(* returns the sum of amount over them.                                    *)
(***************************************************************************)
C2_BillAggregates ==
    contract = "bill_payments" =>
        /\ Get(storage, "UNPAID", 0) = Cardinality(UnpaidIds)
        /\ ~GetTotalUnpaid(storage).panic
        /\ GetTotalUnpaid(storage).ret = SumOf(BillAmountOf, UnpaidIds)

(***************************************************************************)
(* C3: calculate_split with total_amount > 0 never aborts, and the four    *)
(* amounts it returns sum to total_amount.                                 *)
(***************************************************************************)
C3_SplitSumsToTotal ==
    (last.op = "calculate_split" /\ last.args.total_amount > 0) =>
        /\ ~last.panic
        /\ last.ret[1] + last.ret[2] + last.ret[3] + last.ret[4] = last.args.total_amount

(***************************************************************************)
(* C4: pay_bill on an existing unpaid bill returns true and sets paid;     *)
(* pay_bill on an existing paid bill returns false and leaves the bill     *)
(* map, NEXT_ID and UNPAID as they were.                                   *)
(***************************************************************************)
C4_ExactlyOnce ==
    [][(CallStep("pay_bill") /\ last'.args.id \in DOMAIN Bills) =>
          IF ~Bills[last'.args.id].paid
          THEN /\ ~last'.panic
               /\ last'.ret = TRUE
               /\ Bills'[last'.args.id].paid
          ELSE /\ ~last'.panic
               /\ last'.ret = FALSE
               /\ storage' = storage]_vars

(***************************************************************************)
(* C5: deactivate_policy on an active policy returns true, clears active,  *)
(* decrements ACTIVE by 1 and subtracts the policy's monthly_premium from  *)
(* the cached total; on an inactive policy it returns false and changes    *)
(* nothing.                                                                *)
(***************************************************************************)
C5_Deactivate ==
    [][(CallStep("deactivate_policy") /\ last'.args.id \in DOMAIN Policies) =>
          LET id == last'.args.id IN
          IF Policies[id].active
          THEN /\ ~last'.panic
               /\ last'.ret = TRUE
               /\ ~Policies'[id].active
               /\ storage'["ACTIVE"] = Get(storage, "ACTIVE", 0) - 1
               /\ storage'["PREMIUM"] =
                     Get(storage, "PREMIUM", 0) - Policies[id].monthly_premium
          ELSE /\ ~last'.panic
               /\ last'.ret = FALSE
               /\ storage' = storage]_vars

(***************************************************************************)
(* C6: pay_bill, pay_premium and deactivate_policy called with an id that  *)
(* is 0 or greater than NEXT_ID return false and leave the storage as it   *)
(* was.                                                                    *)
(***************************************************************************)
SettleOps == {"pay_bill", "pay_premium", "deactivate_policy"}

C6_UnknownIdNoChange ==
    [][(now' = now /\ last'.op \in SettleOps
          /\ (last'.args.id = 0 \/ last'.args.id > NextId)) =>
          /\ ~last'.panic
          /\ last'.ret = FALSE
          /\ storage' = storage]_vars

C6_Witness ==
    /\ last.op \in SettleOps
    /\ NextId >= 1
    /\ last.args.id > NextId
    /\ last.ret = FALSE

(***************************************************************************)
(* C7, as claimed: pay_bill and deactivate_policy report an unknown id     *)
(* with an outcome other than the plain false of an already settled one.   *)
(***************************************************************************)
Records == IF contract = "bill_payments" THEN Bills ELSE Policies
Settled(rec) == IF contract = "bill_payments" THEN rec.paid ELSE ~rec.active

C7_NotFoundDistinct ==
    (last.op \in {"pay_bill", "deactivate_policy"} /\ last.args.id \notin DOMAIN Records) =>
        (last.panic \/ last.ret # FALSE)

(***************************************************************************)
(* C7, amended: pay_bill and deactivate_policy return the same plain false *)
(* for an unknown id and for a record that is already settled.             *)
(***************************************************************************)
C7_NotFoundIsFalse ==
    [][(now' = now /\ last'.op \in {"pay_bill", "deactivate_policy"}
          /\ (last'.args.id \in DOMAIN Records => Settled(Records[last'.args.id]))) =>
          (~last'.panic /\ last'.ret = FALSE)]_vars

C7_Witness ==
    /\ last.op \in {"pay_bill", "deactivate_policy"}
    /\ DOMAIN Records # {}
    /\ last.args.id \notin DOMAIN Records
    /\ ~last.panic
    /\ last.ret = FALSE
    /\ \E id \in DOMAIN Records : Settled(Records[id])

(***************************************************************************)
(* C8: a successful pay_bill on a recurring bill creates exactly one bill, *)
(* under id NEXT_ID + 1, due frequency_days * 86400 after the paid bill,   *)
(* with its amount, name and frequency_days, recurring and unpaid; on a    *)
(* bill that is not recurring it creates none.                             *)
(***************************************************************************)
C8_Renewal ==
    [][(CallStep("pay_bill") /\ ~last'.panic /\ last'.ret = TRUE) =>
          LET old == Bills[last'.args.id] IN
          IF old.recurring
          THEN /\ DOMAIN Bills' = (DOMAIN Bills) \cup {NextId + 1}
               /\ (NextId + 1) \notin DOMAIN Bills
               /\ Bills'[NextId + 1] =
                     [id |-> NextId + 1, name |-> old.name, amount |-> old.amount,
                      due_date |-> old.due_date + (old.frequency_days * 86400),
                      recurring |-> TRUE, frequency_days |-> old.frequency_days,
                      paid |-> FALSE]
          ELSE DOMAIN Bills' = DOMAIN Bills]_vars

(***************************************************************************)
(* C9: a successful pay_bill on an unpaid recurring bill leaves UNPAID and *)
(* get_total_unpaid as they were, and NEXT_ID and the number of stored     *)
(* bills are each 1 larger.                                                *)
(***************************************************************************)
C9_RecurringNetZero ==
    [][(CallStep("pay_bill") /\ ~last'.panic /\ last'.ret = TRUE
          /\ Bills[last'.args.id].recurring) =>
          /\ Get(storage', "UNPAID", 0) = Get(storage, "UNPAID", 0)
          /\ Outcome(GetTotalUnpaid(storage')) = Outcome(GetTotalUnpaid(storage))
          /\ NextId' = NextId + 1
          /\ Cardinality(DOMAIN Bills') = Cardinality(DOMAIN Bills) + 1]_vars

C9_Witness ==
    /\ last.op = "pay_bill"
    /\ ~last.panic
    /\ last.ret = TRUE
    /\ Bills[last.args.id].recurring
    /\ Cardinality(UnpaidIds) >= 1

(***************************************************************************)
(* C10: create_bill with amount <= 0, create_policy with monthly_premium   *)
(* <= 0 or coverage_amount <= 0 and create_goal with target_amount <= 0    *)
(* fail and leave the storage as it was.                                   *)
(***************************************************************************)
C10_CreateValidation ==
    [][(now' = now
          /\ \/ last'.op = "create_bill" /\ last'.args.amount <= 0
             \/ last'.op = "create_policy"
                  /\ (last'.args.monthly_premium <= 0 \/ last'.args.coverage_amount <= 0)
             \/ last'.op = "create_goal" /\ last'.args.target_amount <= 0) =>
          (last'.panic /\ storage' = storage)]_vars

C10_Witness ==
    /\ last.op \in {"create_bill", "create_policy", "create_goal"}
    /\ last.panic
    /\ NextId >= 1
    /\ \/ last.op = "create_bill" /\ last.args.amount = 0
       \/ last.op = "create_policy" /\ last.args.coverage_amount = 0
       \/ last.op = "create_goal" /\ last.args.target_amount = 0

(***************************************************************************)
(* C11: create_goal succeeds only when target_date is greater than the     *)
(* ledger timestamp; with target_date <= now it fails and leaves NEXT_ID,  *)
(* the goal map and the ACTIVE count as they were.                         *)
(***************************************************************************)
C11_TargetDateInFuture ==
    [][CallStep("create_goal") =>
          /\ ~last'.panic => last'.args.target_date > now
          /\ last'.args.target_date <= now =>
                /\ last'.panic
                /\ NextId' = NextId
                /\ Goals' = Goals
                /\ Get(storage', "ACTIVE", 0) = Get(storage, "ACTIVE", 0)
                /\ storage' = storage]_vars

C11_Witness ==
    /\ last.op = "create_goal"
    /\ last.panic
    /\ last.args.target_amount > 0
    /\ now > 0
    /\ last.args.target_date = now
    /\ NextId >= 1

(***************************************************************************)
(* The record map, the open count and the open state of the ledger that    *)
(* this contract is.                                                       *)
(***************************************************************************)
Ledger ==
    IF contract = "bill_payments" THEN Bills
    ELSE IF contract = "insurance" THEN Policies
    ELSE IF contract = "savings_goals" THEN Goals
    ELSE EmptyMap

OpenCount ==
    IF contract = "bill_payments" THEN Get(storage, "UNPAID", 0)
    ELSE Get(storage, "ACTIVE", 0)

IsOpen(rec) ==
    IF contract = "bill_payments" THEN ~rec.paid
    ELSE IF contract = "insurance" THEN rec.active
    ELSE rec.current_amount < rec.target_amount

CreateOps == {"create_bill", "create_policy", "create_goal"}

AsCreated(rec) ==
    IF contract = "bill_payments" THEN [rec EXCEPT !.paid = FALSE]
    ELSE IF contract = "insurance"
         THEN [rec EXCEPT !.active = TRUE, !.next_payment_date = 0]
    ELSE [rec EXCEPT !.current_amount = 0]

IdsInSequence ==
    /\ DOMAIN Ledger = 1 .. NextId
    /\ \A id \in DOMAIN Ledger : Ledger[id].id = id

(***************************************************************************)
(* C13: in every reachable state of each ledger the keys of the record map *)
(* are exactly 1..NEXT_ID and each record's id field is its key; a record  *)
(* stays under its id, never replaced by a different record, also when a   *)
(* recurring pay_bill issues an id.                                        *)
(***************************************************************************)
C13_IdSequence ==
    /\ IdsInSequence
    /\ [][storage' # storage =>
             /\ IdsInSequence'
             /\ \A id \in DOMAIN Ledger :
                   /\ id \in DOMAIN Ledger'
                   /\ AsCreated(Ledger'[id]) = AsCreated(Ledger[id])]_vars

C13_Witness ==
    /\ contract = "bill_payments"
    /\ last.op = "pay_bill"
    /\ last.ret = TRUE
    /\ last.args.id = 1
    /\ Bills[1].recurring
    /\ NextId = 2
    /\ DOMAIN Bills = {1, 2}
    /\ Bills[2].id = 2

(***************************************************************************)
(* The settlement state of a record (savings goals have none), and the     *)
(* record without it.                                                      *)
(***************************************************************************)
IsSettled(rec) ==
    IF contract = "bill_payments" THEN rec.paid
    ELSE IF contract = "insurance" THEN ~rec.active
    ELSE FALSE

WithoutSettlement(rec) ==
    IF contract = "bill_payments" THEN [rec EXCEPT !.paid = FALSE]
    ELSE IF contract = "insurance" THEN [rec EXCEPT !.active = TRUE]
    ELSE rec

(***************************************************************************)
(* C14, as claimed: in every ledger no operation changes a field of a      *)
(* stored record other than its settlement state (paid, active), and that  *)
(* state goes from open to settled at most once and never back.            *)
(***************************************************************************)
C14_RecordsImmutable ==
    [][storage' # storage =>
          \A id \in DOMAIN Ledger :
             /\ id \in DOMAIN Ledger'
             /\ WithoutSettlement(Ledger'[id]) = WithoutSettlement(Ledger[id])
             /\ IsSettled(Ledger[id]) => IsSettled(Ledger'[id])]_vars

(***************************************************************************)
(* C14, amended: no operation changes a field of a stored record other     *)
(* than paid (bills), active and next_payment_date (policies) and          *)
(* current_amount (goals); next_payment_date is written by a successful    *)
(* pay_premium only and current_amount by a successful add_to_goal only;   *)
(* paid and active go from open to settled at most once and never back.    *)
(***************************************************************************)
C14_RecordsImmutableButProgress ==
    [][storage' # storage =>
          \A id \in DOMAIN Ledger :
             /\ id \in DOMAIN Ledger'
             /\ AsCreated(Ledger'[id]) = AsCreated(Ledger[id])
             /\ IsSettled(Ledger[id]) => IsSettled(Ledger'[id])
             /\ WithoutSettlement(Ledger'[id]) # WithoutSettlement(Ledger[id]) =>
                   /\ last'.args.id = id
                   /\ \/ last'.op = "pay_premium" /\ last'.ret = TRUE
                      \/ last'.op = "add_to_goal" /\ last'.ret[1] = "Ok"]_vars

C14_Witness ==
    /\ contract = "insurance"
    /\ last.op = "deactivate_policy"
    /\ last.ret = TRUE
    /\ now = 1
    /\ ~Policies[last.args.id].active
    /\ Policies[last.args.id].next_payment_date = MONTH_IN_SECONDS + 1

(***************************************************************************)
(* C15: in every reachable state get_unpaid_bills returns exactly the      *)
(* bills with paid = false and get_active_policies exactly the policies    *)
(* with active = true, each once, in strictly ascending id order.          *)
(***************************************************************************)
ListsExactly(list, records, ids) ==
    /\ {list[i] : i \in DOMAIN list} = {records[id] : id \in ids}
    /\ Len(list) = Cardinality(ids)
    /\ \A i \in DOMAIN list : \A j \in DOMAIN list : i < j => list[i].id < list[j].id

C15_Listing ==
    /\ contract = "bill_payments" =>
          ListsExactly(GetUnpaidBills(storage).ret, Bills, UnpaidIds)
    /\ contract = "insurance" =>
          ListsExactly(GetActivePolicies(storage).ret, Policies, ActiveIds)

C15_Witness ==
    /\ last.op \in {"get_unpaid_bills", "get_active_policies"}
    /\ NextId = 2
    /\ IsSettled(Ledger[1])
    /\ last.ret = <<Ledger[2]>>
    /\ ~IsSettled(Ledger[2])

(***************************************************************************)
(* The storage keys of the ledger that this contract is.                   *)
(***************************************************************************)
LedgerKey ==
    IF contract = "bill_payments" THEN "BILLS"
    ELSE IF contract = "insurance" THEN "POLICIES"
    ELSE "GOALS"

AggregateKeys ==
    IF contract = "bill_payments" THEN {"UNPAID"}
    ELSE IF contract = "insurance" THEN {"ACTIVE", "PREMIUM"}
    ELSE {"TOTAL", "ACTIVE", "COMPLETE"}

(***************************************************************************)
(* C16: initialize fails whenever NEXT_ID is stored, after an initialize   *)
(* or after a create made without one, and then leaves the storage as it   *)
(* was; NEXT_ID once stored stays stored, so initialize succeeds at most   *)
(* once.  A successful initialize sets NEXT_ID and every cached count and  *)
(* total to 0 and the record map to empty.                                 *)
(***************************************************************************)
C16_InitializeOnce ==
    [][/\ Has(storage, "NEXT_ID") => Has(storage', "NEXT_ID")
       /\ CallStep("initialize") =>
             IF Has(storage, "NEXT_ID")
             THEN last'.panic /\ storage' = storage
             ELSE /\ ~last'.panic
                  /\ DOMAIN storage' = {"NEXT_ID", LedgerKey} \cup AggregateKeys
                  /\ \A k \in {"NEXT_ID"} \cup AggregateKeys : storage'[k] = 0
                  /\ storage'[LedgerKey] = EmptyMap]_vars

C16_Witness ==
    /\ contract = "savings_goals"
    /\ last.op = "initialize"
    /\ last.panic
    /\ ~Has(storage, "TOTAL")
    /\ NextId = 1
    /\ DOMAIN Goals = {1}

(***************************************************************************)
(* The storage that the same invocations reach when initialize ran first:  *)
(* the keys that initialize writes hold its zeros where they are absent.   *)
(***************************************************************************)
AfterInitialize(st) ==
    [k \in (DOMAIN st) \cup {"NEXT_ID", LedgerKey} \cup AggregateKeys |->
        IF k \in DOMAIN st THEN st[k]
        ELSE IF k = LedgerKey THEN EmptyMap
        ELSE 0]

\* r on the ledger as it is and ri on the initialized one: the same outcome
SameOutcome(r, ri) ==
    /\ ri.panic = r.panic
    /\ ri.ret = r.ret
    /\ ~r.panic => ri.st = AfterInitialize(r.st)

UninitializedBills ==
    LET st == storage
        sti == AfterInitialize(storage)
    IN  /\ \A name \in BillNames, amount \in BillAmounts, due_date \in BillDueDates,
              recurring \in BOOLEAN, frequency_days \in BillFrequencies :
              SameOutcome(CreateBill(st, name, amount, due_date, recurring, frequency_days),
                          CreateBill(sti, name, amount, due_date, recurring, frequency_days))
        /\ \A bill_id \in BillIds :
              /\ SameOutcome(PayBill(st, bill_id), PayBill(sti, bill_id))
              /\ SameOutcome(GetBill(st, bill_id), GetBill(sti, bill_id))
        /\ SameOutcome(GetUnpaidBills(st), GetUnpaidBills(sti))
        /\ SameOutcome(GetTotalUnpaid(st), GetTotalUnpaid(sti))

UninitializedInsurance ==
    LET st == storage
        sti == AfterInitialize(storage)
    IN  /\ \A name \in PolicyNames, coverage_type \in CoverageTypes,
              monthly_premium \in Premiums, coverage_amount \in CoverageAmounts :
              SameOutcome(
                 CreatePolicy(st, name, coverage_type, monthly_premium, coverage_amount),
                 CreatePolicy(sti, name, coverage_type, monthly_premium, coverage_amount))
        /\ \A policy_id \in PolicyIds :
              /\ SameOutcome(PayPremium(st, policy_id), PayPremium(sti, policy_id))
              /\ SameOutcome(DeactivatePolicy(st, policy_id),
                             DeactivatePolicy(sti, policy_id))
              /\ SameOutcome(GetPolicy(st, policy_id), GetPolicy(sti, policy_id))
        /\ SameOutcome(GetActivePolicies(st), GetActivePolicies(sti))
        /\ SameOutcome(GetTotalMonthlyPremium(st), GetTotalMonthlyPremium(sti))

UninitializedSavings ==
    LET st == storage
        sti == AfterInitialize(storage)
    IN  /\ \A name \in GoalNames, target_amount \in TargetAmounts,
              target_date \in TargetDates :
              SameOutcome(CreateGoal(st, name, target_amount, target_date),
                          CreateGoal(sti, name, target_amount, target_date))
        /\ \A goal_id \in GoalIds :
              /\ \A amount \in Contributions :
                    SameOutcome(AddToGoal(st, goal_id, amount),
                                AddToGoal(sti, goal_id, amount))
              /\ SameOutcome(GetGoal(st, goal_id), GetGoal(sti, goal_id))
              /\ SameOutcome(IsGoalCompleted(st, goal_id), IsGoalCompleted(sti, goal_id))
        /\ SameOutcome(GetAllGoals(st), GetAllGoals(sti))

\* initialize on the empty storage, by contract
InitializeOf(st) ==
    IF contract = "bill_payments" THEN BillInitialize(st)
    ELSE IF contract = "insurance" THEN InsuranceInitialize(st)
    ELSE SavingsInitialize(st)

(***************************************************************************)
(* C17: a ledger that was never initialized behaves as the initialized     *)
(* one: initialize on the empty storage gives the empty storage with its   *)
(* defaults written, and in every reachable state where a key initialize   *)
(* writes is absent every create, settle and read returns the same result, *)
(* and leaves the same records, NEXT_ID and aggregates, as on the storage  *)
(* with the defaults written.                                              *)
(***************************************************************************)
C17_UninitializedIsInitialized ==
    (contract \in {"bill_payments", "insurance", "savings_goals"}
        /\ storage # AfterInitialize(storage)) =>
        /\ InitializeOf(EmptyStorage).st = AfterInitialize(EmptyStorage)
        /\ contract = "bill_payments" => UninitializedBills
        /\ contract = "insurance" => UninitializedInsurance
        /\ contract = "savings_goals" => UninitializedSavings

C17_Witness ==
    /\ contract = "savings_goals"
    /\ last.op = "add_to_goal"
    /\ last.ret = Ok(1)
    /\ ~Has(storage, "COMPLETE")
    /\ storage["TOTAL"] = 1
    /\ storage # AfterInitialize(storage)

(***************************************************************************)
(* C18: for every total_amount > 0 and stored configuration (p1, p2, p3,   *)
(* p4) calculate_split returns floor(total_amount * p1 / 100),             *)
(* floor(total_amount * p2 / 100), floor(total_amount * p3 / 100) and      *)
(* total_amount less those three, in that order.                           *)
(***************************************************************************)
SplitFormula(total, p) ==
    LET spending == (total * p[1]) \div 100
        savings == (total * p[2]) \div 100
        bills == (total * p[3]) \div 100
    IN  <<spending, savings, bills, ((total - spending) - savings) - bills>>

C18_SplitFormula ==
    (last.op = "calculate_split" /\ last.args.total_amount > 0) =>
        /\ ~last.panic
        /\ last.ret = SplitFormula(last.args.total_amount, GetSplit(storage))

(***************************************************************************)
(* C19: initialize_split and update_split accept a configuration exactly   *)
(* when its four percentages sum to 100 (they reject (50,30,15,4) and      *)
(* (50,30,15,6) and accept (50,30,15,5)); a rejected call stores nothing,  *)
(* so get_split and get_config return what they returned before it.        *)
(***************************************************************************)
ConfigureOps == {"initialize_split", "update_split"}

\* the caller may configure: authorized, and the configuration is in the
\* state the operation requires
MayConfigure(op, args) ==
    /\ args.authorized
    /\ op = "initialize_split" => ~Has(storage, "CONFIG")
    /\ op = "update_split" => Has(storage, "CONFIG") /\ storage["CONFIG"].owner = args.owner

TrueSum(p) == p[1] + p[2] + p[3] + p[4]

C19_AcceptedIffSumIs100 ==
    [][(now' = now /\ last'.op \in ConfigureOps) =>
          /\ MayConfigure(last'.op, last'.args) =>
                ((~last'.panic /\ last'.ret = TRUE) <=> TrueSum(last'.args.p) = 100)
          /\ (~last'.panic /\ last'.ret = TRUE) =>
                /\ GetSplit(storage') = last'.args.p
                /\ GetConfig(storage') = <<SplitConfig(last'.args.owner, last'.args.p)>>
          /\ (last'.panic \/ last'.ret = FALSE) =>
                /\ storage' = storage
                /\ GetSplit(storage') = GetSplit(storage)
                /\ GetConfig(storage') = GetConfig(storage)]_vars

(***************************************************************************)
(* C20: in every reachable state, whatever u32 arguments were passed to    *)
(* initialize_split and update_split, the stored SPLIT, when present, has  *)
(* four values in 0..100 that sum to 100; SPLIT is present exactly when    *)
(* CONFIG is, and the percentages of CONFIG are those of SPLIT.            *)
(***************************************************************************)
C20_StoredSplit ==
    contract = "remittance_split" =>
        /\ Has(storage, "SPLIT") <=> Has(storage, "CONFIG")
        /\ Has(storage, "SPLIT") =>
              LET p == storage["SPLIT"]
                  config == storage["CONFIG"]
              IN  /\ \A i \in 1 .. 4 : 0 <= p[i] /\ p[i] <= 100
                  /\ TrueSum(p) = 100
                  /\ config = SplitConfig(config.owner, p)

(***************************************************************************)
(* C21: while no configuration has been accepted, also after               *)
(* initialize_split calls that returned false, get_split returns           *)
(* (50, 30, 15, 5), get_config returns none, and calculate_split computes  *)
(* as it does on the configuration (50, 30, 15, 5): 50, 30 and 15 percent  *)
(* and the remainder.                                                      *)
(***************************************************************************)
C21_DefaultSplit ==
    (contract = "remittance_split" /\ ~Has(storage, "CONFIG")) =>
        /\ GetSplit(storage) = <<50, 30, 15, 5>>
        /\ GetConfig(storage) = <<>>
        /\ \A total_amount \in TotalAmounts :
              Outcome(CalculateSplit(storage, total_amount)) =
                 Outcome(CalculateSplit(Set(EmptyStorage, "SPLIT", <<50, 30, 15, 5>>),
                                        total_amount))
        /\ Outcome(CalculateSplit(storage, 100)) = [panic |-> FALSE, ret |-> <<50, 30, 15, 5>>]
        /\ Outcome(CalculateSplit(storage, 7)) = [panic |-> FALSE, ret |-> <<3, 2, 1, 1>>]
        /\ last.op = "get_split" => last.ret = <<50, 30, 15, 5>>
        /\ last.op = "get_config" => last.ret = <<>>

C21_Witness ==
    /\ last.op = "initialize_split"
    /\ ~last.panic
    /\ last.ret = FALSE
    /\ last.args.p = <<50, 30, 15, 6>>
    /\ ~Has(storage, "CONFIG")
    /\ GetSplit(storage) = <<50, 30, 15, 5>>

(***************************************************************************)
(* C22: calculate_split with total_amount <= 0 fails: it returns no        *)
(* amounts, emits no Calculated event and leaves the stored configuration  *)
(* as it was.                                                              *)
(***************************************************************************)
C22_NonPositiveTotalFails ==
    [][(CallStep("calculate_split") /\ last'.args.total_amount <= 0) =>
          /\ last'.panic
          /\ last'.events = <<>>
          /\ storage' = storage
          /\ GetSplit(storage') = GetSplit(storage)
          /\ GetConfig(storage') = GetConfig(storage)]_vars

C22_Witness ==
    /\ last.op = "calculate_split"
    /\ last.args.total_amount = 0
    /\ last.panic
    /\ last.events = <<>>
    /\ Has(storage, "CONFIG")

C24_OwnerOnly ==
    [][/\ CallStep("update_split") =>
             /\ ~Has(storage, "CONFIG") => (last'.panic /\ storage' = storage)
             /\ (Has(storage, "CONFIG") /\ storage["CONFIG"].owner # last'.args.owner) =>
                   (last'.panic /\ storage' = storage)
       /\ Has(storage, "CONFIG") =>
             /\ Has(storage', "CONFIG")
             /\ storage'["CONFIG"].owner = storage["CONFIG"].owner]_vars

C24_Witness ==
    /\ last.op = "update_split"
    /\ last.panic
    /\ last.args.authorized
    /\ TrueSum(last.args.p) = 100
    /\ Has(storage, "CONFIG")
    /\ storage["CONFIG"].owner # last.args.owner
    /\ storage["SPLIT"] # last.args.p

(***************************************************************************)
(* C25: after update_split(owner, a, b, c, d) has returned true get_split  *)
(* returns (a, b, c, d), get_config returns those percentages with that    *)
(* owner, nothing else is stored, and calculate_split computes with        *)
(* (a, b, c); the stored configuration stays until the next successful     *)
(* update_split.                                                           *)
(***************************************************************************)
C25_ConfigRoundTrip ==
    [][IF CallStep("update_split") /\ ~last'.panic /\ last'.ret = TRUE
       THEN /\ GetSplit(storage') = last'.args.p
            /\ GetConfig(storage') = <<SplitConfig(last'.args.owner, last'.args.p)>>
            /\ DOMAIN storage' = {"SPLIT", "CONFIG"}
            /\ \A total_amount \in TotalAmounts :
                  Outcome(CalculateSplit(storage', total_amount)) =
                     Outcome(CalculateSplit(Set(EmptyStorage, "SPLIT", last'.args.p),
                                            total_amount))
       ELSE Has(storage, "CONFIG") => storage' = storage]_vars

C25_Witness ==
    /\ last.op = "update_split"
    /\ ~last.panic
    /\ last.ret = TRUE
    /\ last.args.p = <<33, 33, 33, 1>>
    /\ GetSplit(storage) = <<33, 33, 33, 1>>
    /\ GetConfig(storage) = <<SplitConfig(last.args.owner, <<33, 33, 33, 1>>)>>

(***************************************************************************)
(* C26: add_to_goal with amount <= 0 returns InvalidAmount, also for an    *)
(* unknown goal id, and with amount > 0 and an unknown goal id returns     *)
(* GoalNotFound, and in both cases leaves the goal map, TOTAL, ACTIVE and  *)
(* COMPLETE as they were; on success it returns the goal's new             *)
(* current_amount, which is the old current_amount plus amount.            *)
(***************************************************************************)
C26_AddToGoalOutcomes ==
    [][CallStep("add_to_goal") =>
          LET goal_id == last'.args.id
              amount == last'.args.amount
          IN  /\ amount <= 0 =>
                    /\ ~last'.panic
                    /\ last'.ret = Err(InvalidAmount)
                    /\ storage' = storage
              /\ (amount > 0 /\ goal_id \notin DOMAIN Goals) =>
                    /\ ~last'.panic
                    /\ last'.ret = Err(GoalNotFound)
                    /\ storage' = storage
              /\ (~last'.panic /\ last'.ret[1] = "Ok") =>
                    /\ last'.ret[2] = Goals[goal_id].current_amount + amount
                    /\ Goals'[goal_id].current_amount = last'.ret[2]]_vars

(***************************************************************************)
(* The members stored in the family wallet.                                *)
(***************************************************************************)
Members == Get(storage, "MEMBERS", EmptyMap)

(***************************************************************************)
(* C28: check_spending_limit(address, amount) returns true exactly when a  *)
(* member is stored under address and amount <= that member's              *)
(* spending_limit, which is the limit last set for the address by          *)
(* add_member or update_spending_limit; for an unknown address it returns  *)
(* false whatever the amount.                                              *)
(***************************************************************************)
C28_CheckSpendingLimit ==
    /\ [](contract = "family_wallet" =>
            \A address \in Addresses, amount \in SpendAmounts :
               /\ ~CheckSpendingLimit(storage, address, amount).panic
               /\ CheckSpendingLimit(storage, address, amount).ret =
                     (address \in DOMAIN Members
                        /\ amount <= Members[address].spending_limit))
    /\ [][contract = "family_wallet" =>
            \A address \in Addresses :
               IF last'.op = "add_member" /\ last'.args.address = address
               THEN /\ address \in DOMAIN Members'
                    /\ Members'[address].spending_limit = last'.args.spending_limit
               ELSE IF last'.op = "update_spending_limit" /\ last'.args.address = address
                       /\ address \in DOMAIN Members
               THEN /\ address \in DOMAIN Members'
                    /\ Members'[address].spending_limit = last'.args.new_limit
               ELSE /\ (address \in DOMAIN Members') = (address \in DOMAIN Members)
                    /\ address \in DOMAIN Members =>
                          Members'[address].spending_limit =
                             Members[address].spending_limit]_vars

C28_Witness ==
    /\ last.op = "check_spending_limit"
    /\ last.ret = TRUE
    /\ last.args.amount = 5
    /\ Members[last.args.address].spending_limit = 5
    /\ Cardinality(DOMAIN Members) = 1

(***************************************************************************)
(* C29: get_all_members returns all family members in the wallet: its      *)
(* result has one entry for every address for which get_member returns a   *)
(* member.                                                                 *)
(***************************************************************************)
C29_GetAllMembers ==
    contract = "family_wallet" =>
        LET result == GetAllMembers(storage).ret IN
        /\ \A address \in Addresses :
              GetMember(storage, address) # <<>> =>
                 \E i \in DOMAIN result : result[i] = GetMember(storage, address)[1]
        /\ Len(result) = Cardinality({address \in Addresses :
                                         GetMember(storage, address) # <<>>})

(***************************************************************************)
(* The last invocation was a mutating operation of a ledger or of the      *)
(* allocator, and it succeeded.                                            *)
(***************************************************************************)
ReturnsBool == {"pay_bill", "pay_premium", "deactivate_policy",
                "initialize_split", "update_split"}

MutatedSuccessfully ==
    /\ ~last.panic
    /\ \/ last.op = "initialize"
       \/ last.op \in CreateOps
       \/ last.op \in ReturnsBool /\ last.ret = TRUE
       \/ last.op = "add_to_goal" /\ last.ret[1] = "Ok"

(***************************************************************************)
(* C30: every successful mutating operation of the ledgers and of the      *)
(* allocator (initialize, create, settle/pay, deactivate, add_to_goal,     *)
(* initialize_split, update_split) extends the storage lifetime before it  *)
(* returns.                                                                *)
(***************************************************************************)
C30_ExtendsTtl == MutatedSuccessfully => last.ttl

(***************************************************************************)
(* C31: pay_premium on a stored policy touches only the payment date.  On  *)
(* an active policy it returns true and sets that policy's                 *)
(* next_payment_date to the ledger timestamp + 30 * 86400; the policy's    *)
(* other fields, every other policy, NEXT_ID, ACTIVE and the cached total  *)
(* stay as they were.  On an inactive policy it returns false and changes  *)
(* nothing.                                                                *)
(***************************************************************************)
C31_PayPremiumFrame ==
    [][(CallStep("pay_premium") /\ last'.args.id \in DOMAIN Policies) =>
          LET id == last'.args.id IN
          IF Policies[id].active
          THEN /\ ~last'.panic
               /\ last'.ret = TRUE
               /\ DOMAIN storage' = DOMAIN storage
               /\ \A k \in DOMAIN storage \ {"POLICIES"} : storage'[k] = storage[k]
               /\ DOMAIN storage'["POLICIES"] = DOMAIN Policies
               /\ \A other \in DOMAIN Policies \ {id} :
                      storage'["POLICIES"][other] = Policies[other]
               /\ storage'["POLICIES"][id] =
                      [Policies[id] EXCEPT !.next_payment_date = now + (30 * 86400)]
          ELSE /\ ~last'.panic
               /\ last'.ret = FALSE
               /\ storage' = storage]_vars

\* a premium was paid one tick after two policies were created
C31_Witness ==
    /\ contract = "insurance"
    /\ last.op = "pay_premium"
    /\ ~last.panic
    /\ last.ret = TRUE
    /\ now = 1
    /\ Cardinality(DOMAIN Policies) = 2
    /\ Policies[last.args.id].next_payment_date = 1 + (30 * 86400)
    /\ \E other \in DOMAIN Policies : Policies[other].next_payment_date = 30 * 86400

(***************************************************************************)
(* A read neither fails nor changes the storage; every read operation of   *)
(* the contract, applied to the current storage.                           *)
(***************************************************************************)
Unfailing(r) == ~r.panic /\ r.st = storage

ReadsUnfailing ==
    CASE contract = "bill_payments" ->
            /\ \A id \in BillIds : Unfailing(GetBill(storage, id))
            /\ Unfailing(GetUnpaidBills(storage))
            /\ Unfailing(GetTotalUnpaid(storage))
      [] contract = "insurance" ->
            /\ \A id \in PolicyIds : Unfailing(GetPolicy(storage, id))
            /\ Unfailing(GetActivePolicies(storage))
            /\ Unfailing(GetTotalMonthlyPremium(storage))
      [] contract = "savings_goals" ->
            /\ \A id \in GoalIds : Unfailing(GetGoal(storage, id))
            /\ \A id \in GoalIds : Unfailing(IsGoalCompleted(storage, id))
            /\ Unfailing(GetAllGoals(storage))
      [] contract = "remittance_split" ->
            /\ Unfailing(Returns(GetSplit(storage), storage, FALSE, <<>>))
            /\ Unfailing(Returns(GetConfig(storage), storage, FALSE, <<>>))
      [] OTHER -> TRUE

ReadOps == {"get_bill", "get_unpaid_bills", "get_total_unpaid", "get_policy",
            "get_active_policies", "get_total_monthly_premium", "get_goal",
            "get_all_goals", "is_goal_completed", "get_split", "get_config"}

\* get(id) of the ledger
GetRecord(id) ==
    CASE contract = "bill_payments" -> GetBill(storage, id)
      [] contract = "insurance" -> GetPolicy(storage, id)
      [] contract = "savings_goals" -> GetGoal(storage, id)

(***************************************************************************)
(* C32: read operations never fail and never change persisted state, in    *)
(* every reachable state, an uninitialized ledger included; get(id)        *)
(* returns the record exactly when id is in 1..NEXT_ID and the absent      *)
(* signal otherwise.                                                       *)
(***************************************************************************)
C32_ReadsNeverFail ==
    /\ ReadsUnfailing
    /\ last.op \in ReadOps => ~last.panic
    /\ contract \in {"bill_payments", "insurance", "savings_goals"} =>
          \A id \in 0 .. (MaxRecords + 1) :
             GetRecord(id).ret = (IF id \in 1 .. NextId THEN <<Ledger[id]>> ELSE <<>>)

CurrentAmountOf == [id \in DOMAIN Goals |-> Goals[id].current_amount]

(***************************************************************************)
(* C33: in every reachable state of the savings ledger the cached TOTAL    *)
(* saved is the sum of current_amount over all stored goals, and every     *)
(* goal's current_amount is >= 0.                                          *)
(***************************************************************************)
C33_TotalSaved ==
    contract = "savings_goals" =>
        /\ Get(storage, "TOTAL", 0) = SumOf(CurrentAmountOf, DOMAIN Goals)
        /\ \A id \in DOMAIN Goals : Goals[id].current_amount >= 0

CompletedIds == {id \in DOMAIN Goals : Goals[id].current_amount >= Goals[id].target_amount}

(***************************************************************************)
(* C34: in every reachable state of the savings ledger the COMPLETE count  *)
(* is the number of goals with current_amount >= target_amount, the ACTIVE *)
(* count is the number of goals with current_amount < target_amount, and   *)
(* ACTIVE + COMPLETE = NEXT_ID; a contribution to a goal that is already   *)
(* completed does not count it again.                                      *)
(***************************************************************************)
C34_GoalCounts ==
    /\ [](contract = "savings_goals" =>
            /\ Get(storage, "COMPLETE", 0) = Cardinality(CompletedIds)
            /\ Get(storage, "ACTIVE", 0) = Cardinality(DOMAIN Goals \ CompletedIds)
            /\ Get(storage, "ACTIVE", 0) + Get(storage, "COMPLETE", 0) = NextId)
    /\ [][(CallStep("add_to_goal") /\ last'.args.id \in CompletedIds) =>
             Get(storage', "COMPLETE", 0) = Get(storage, "COMPLETE", 0)]_vars

(***************************************************************************)
(* C35: completion is permanent.  Once is_goal_completed(id) returns true  *)
(* it returns true after every later operation, and a goal's               *)
(* current_amount never decreases; is_goal_completed returns false for an  *)
(* unknown id.                                                             *)
(***************************************************************************)
C35_CompletionPermanent ==
    /\ [](contract = "savings_goals" =>
            \A id \in GoalIds \ DOMAIN Goals :
               Outcome(IsGoalCompleted(storage, id)) = [panic |-> FALSE, ret |-> FALSE])
    /\ [][contract = "savings_goals" =>
             \A id \in GoalIds :
                /\ IsGoalCompleted(storage, id).ret => IsGoalCompleted(storage', id).ret
                /\ id \in DOMAIN Goals =>
                      /\ id \in DOMAIN Get(storage', "GOALS", EmptyMap)
                      /\ Get(storage', "GOALS", EmptyMap)[id].current_amount
                            >= Goals[id].current_amount]_vars

\* the unpaid bills of a map that recur
UnpaidRecurring(bills) == {id \in DOMAIN bills : bills[id].recurring /\ ~bills[id].paid}

(***************************************************************************)
(* C36: the number of unpaid bills with recurring = true never decreases;  *)
(* hence once a recurring bill has been created, the UNPAID count is >= 1  *)
(* and get_unpaid_bills is non-empty in every later state, however many    *)
(* pay_bill calls follow.                                                  *)
(***************************************************************************)
C36_RecurringStaysUnpaid ==
    /\ [](contract = "bill_payments" =>
            ((\E id \in DOMAIN Bills : Bills[id].recurring) =>
                /\ Get(storage, "UNPAID", 0) >= 1
                /\ Outcome(GetUnpaidBills(storage)).panic = FALSE
                /\ Len(GetUnpaidBills(storage).ret) >= 1
                /\ \E i \in DOMAIN GetUnpaidBills(storage).ret :
                      GetUnpaidBills(storage).ret[i].recurring))
    /\ [][contract = "bill_payments" =>
             Cardinality(UnpaidRecurring(Get(storage', "BILLS", EmptyMap)))
                >= Cardinality(UnpaidRecurring(Bills))]_vars

\* a recurring bill was paid and its successor is the unpaid one
C36_Witness ==
    /\ contract = "bill_payments"
    /\ last.op = "pay_bill"
    /\ ~last.panic
    /\ last.ret = TRUE
    /\ Bills[last.args.id].recurring
    /\ Bills[last.args.id].paid
    /\ UnpaidRecurring(Bills) = {last.args.id + 1}
    /\ Get(storage, "UNPAID", 0) = 1

\* four percentages in 0..100 that sum to 100
IsSplit(p) == (\A i \in 1 .. 4 : p[i] \in 0 .. 100) /\ TrueSum(p) = 100

\* the amounts are within the bounds of the shares of total under p
WithinShares(amounts, total, p) ==
    /\ \A i \in 1 .. 4 : 0 <= amounts[i] /\ amounts[i] <= total
    /\ amounts[4] >= (total * p[4]) \div 100
    /\ amounts[4] <= ((total * p[4]) \div 100) + 3

(***************************************************************************)
(* C37: for every total_amount > 0 and every configuration of four         *)
(* percentages in 0..100 summing to 100, each of the four amounts returned *)
(* by calculate_split is >= 0 and <= total_amount, and the insurance       *)
(* amount is at least floor(total_amount * insurance_percent / 100) and    *)
(* exceeds it by at most 3.                                                *)
(***************************************************************************)
C37_ShareBounds ==
    (/\ contract = "remittance_split"
     /\ last.op = "calculate_split"
     /\ ~last.panic
     /\ last.args.total_amount > 0
     /\ IsSplit(GetSplit(storage))) =>
        WithinShares(last.ret, last.args.total_amount, GetSplit(storage))

====
